---- MODULE Spec2Model ----
(***************************************************************************)
(* Model of portainer-info-extract: the sequential collection script       *)
(* (app.py) and the PortainerAPI client class (portainer_api.py).          *)
(*                                                                         *)
(* The HTTP server is the environment: every request draws its outcome     *)
(* (a 200 response with a body, a 500 response, or a transport exception)  *)
(* from a bounded set.  The variable log is a history of every request     *)
(* issued and of how the call returned; the other variables are the        *)
(* program's own state.                                                    *)
(***************************************************************************)
EXTENDS Integers, Sequences, FiniteSets, TLC

\* ------------------------------------------------------------------ bounds
MaxEndpoints == 2      \* endpoints (and groups) the server can list
MaxLen == 2            \* items in one response body
Budget == 2            \* items returned plus 500 responses served in one run
MaxCalls == 2          \* method calls made on one PortainerAPI object

VARIABLES
    impl,                  \* "script" (app.py) or "class" (PortainerAPI)
    pc,                    \* position of the script / life cycle of the object
    exception,             \* the exception that ended the script or the last call
    jwt,                   \* bearer token ("" before authentication)
    endpoints,             \* app.py: endpoints
    group_id_to_name,      \* app.py: group_id_to_name (sequence of [Id, Name])
    idx,                   \* index of the endpoint the for loop is at
    containers_response,   \* app.py: containers_response of the current endpoint
    cidx,                  \* index of the container the inner loop is at
    services_data,
    secrets_data,
    nodes_dict,            \* insertion-ordered: sequence of node records
    container_stats_data,
    request_errors,        \* request_errors / self.request_errors
    exported,              \* sheets written to the workbook (<<>> if none)
    ret,                   \* return value of the last PortainerAPI method call
    budget,                \* what the environment may still serve
    log                    \* history of the requests issued

vars == <<impl, pc, exception, jwt, endpoints, group_id_to_name, idx,
          containers_response, cidx, services_data, secrets_data, nodes_dict,
          container_stats_data, request_errors, exported, ret, budget, log>>

\* --------------------------------------------------------------- utilities
None == "<None>"       \* Python's None

Range(s) == {s[i] : i \in DOMAIN s}

SeqsUpTo(S, n) == UNION {[1..k -> S] : k \in 0..n}

RECURSIVE FindSep(_, _, _)
\* first position >= i of s holding sep, Len(s) + 1 if there is none
FindSep(s, sep, i) ==
    IF i > Len(s) THEN Len(s) + 1
    ELSE IF s[i] = sep THEN i
    ELSE FindSep(s, sep, i + 1)

\* Python's text.split(sep)[0]: the part before the first separator
SplitFirst(s, sep) == SubSeq(s, 1, FindSep(s, sep, 1) - 1)

\* ------------------------------------------------------------ environment
\* exceptions requests raises without a response.  app.py passes no timeout,
\* so its requests never raise Timeout; PortainerAPI passes timeout=10
ScriptTransportErrors == {"ConnectionError"}
ClassTransportErrors == {"ConnectionError", "Timeout"}

Resp(status, body) == [exc |-> "", status |-> status, body |-> body]
Exc(e) == [exc |-> e, status |-> 0, body |-> <<>>]

\* the outcomes of one request whose 200 body is one of bodies, when the
\* environment may still serve b items or failures
Responses(bodies, b, excs) ==
    {Resp(200, x) : x \in {y \in bodies : Len(y) <= b}}
      \cup (IF b > 0 THEN {Resp(500, <<>>)} ELSE {})
      \cup {Exc(e) : e \in excs}

\* the outcomes of the credential POST
AuthResponses(excs) ==
    {Resp(200, <<"jwt">>), Resp(500, <<>>)} \cup {Exc(e) : e \in excs}

Cost(res) ==
    IF res.exc /= "" THEN 0 ELSE IF res.status = 200 THEN Len(res.body) ELSE 1

\* one entry of the history: the request, its outcome, how the statement or
\* the safe_request call that issued it came back ("value", "None" or
\* "raised"), and the exception that left the statement or method ("" if none)
Entry(method, url, via, res, out, exc) ==
    [method |-> method, url |-> url, via |-> via, res |-> res, out |-> out,
     exc |-> exc]

\* URLs, f-strings of app.py and portainer_api.py: one record per distinct URL
URL(path, eid, cid) == [path |-> path, eid |-> eid, cid |-> cid]
LOGIN_URL == URL("/api/auth", 0, 0)
ENDPOINTS_URL == URL("/api/endpoints", 0, 0)
groups_url == URL("/api/endpoint_groups", 0, 0)
services_url(eid) == URL("docker/services", eid, 0)
secrets_url(eid) == URL("docker/secrets", eid, 0)
nodes_url(eid) == URL("docker/nodes", eid, 0)
containers_url(eid) == URL("docker/containers/json", eid, 0)
stats_url(eid, cid) == URL("docker/containers/stats?stream=false", eid, cid)

PerEndpointPaths ==
    {"docker/services", "docker/secrets", "docker/nodes",
     "docker/containers/json", "docker/containers/stats?stream=false"}

\* the endpoints the server lists: ids are unique, endpoint i is in group i
EndpointOf(i) == [Id |-> i, Name |-> <<"ep", i>>, GroupId |-> i]
EndpointLists == {[i \in 1..n |-> EndpointOf(i)] : n \in 0..MaxEndpoints}

GroupOf(g) == [Id |-> g, Name |-> <<"group", g>>]
GroupLists == {[i \in 1..n |-> GroupOf(i)] : n \in 0..MaxEndpoints}

\* a replicated service with every optional field, and a global one with none
ReplicatedService ==
    [Spec |-> [Name |-> "web",
               Mode |-> [Replicated |-> [Replicas |-> 2]],
               TaskTemplate |-> [ContainerSpec |->
                   [Image |-> <<"repo/image:tag", "@", "sha256:abc">>,
                    Env |-> << <<"KEY", "=", "value">> >>,
                    Configs |-> << [ConfigName |-> "cfg", File |-> [Name |-> "/etc/cfg"]] >>,
                    Mounts |-> << [Source |-> "vol", Target |-> "/data", Type |-> "volume"] >>,
                    Labels |-> [com_docker_stack_namespace |-> "stackA"]]]]]

GlobalService ==
    [Spec |-> [Name |-> "agent",
               Mode |-> [Global |-> "{}"],
               TaskTemplate |-> [ContainerSpec |->
                   [Image |-> <<"repo/agent:1">>]]]]

ServiceBodies == SeqsUpTo({ReplicatedService, GlobalService}, MaxLen)

SecretOf(i) == [Spec |-> [Name |-> <<"secret", i>>]]
SecretBodies == {[i \in 1..n |-> SecretOf(i)] : n \in 0..MaxLen}

Hostnames == {"h1", "h2"}
\* what endpoint eid reports about the node with hostname h
NodeOf(eid, h) ==
    [Description |-> [Hostname |-> h,
                      Resources |-> [NanoCPUs |-> eid, MemoryBytes |-> eid]],
     Spec |-> [Role |-> IF eid = 1 THEN "manager" ELSE "worker",
               Availability |-> "active"],
     Status |-> [State |-> IF eid = 1 THEN "ready" ELSE "down"]]
NodeBodies(eid) ==
    {[i \in DOMAIN hs |-> NodeOf(eid, hs[i])] : hs \in SeqsUpTo(Hostnames, MaxLen)}

\* containers differ in the labels they carry; ids are unique in one listing
LabelSets ==
    {[maintainer |-> "ops"],
     [com_docker_stack_namespace |-> "stackA"],
     [com_docker_swarm_service_name |-> "web"],
     [com_docker_stack_namespace |-> "stackA", com_docker_swarm_service_name |-> "web"]}
ContainerBodies ==
    {[i \in DOMAIN ls |-> [Id |-> i, Labels |-> ls[i]]] :
        ls \in SeqsUpTo(LabelSets, MaxLen)}

StatsBody == [cpu_stats |-> "snapshot"]
\* a statistics snapshot is one object: it costs nothing beyond its container
StatsResponses(b, excs) ==
    {Resp(200, StatsBody)}
      \cup (IF b > 0 THEN {Resp(500, <<>>)} ELSE {})
      \cup {Exc(e) : e \in excs}
StatsCost(res) == IF res.exc = "" /\ res.status = 500 THEN 1 ELSE 0

\* ------------------------------------------------------- shared by both
\* requests.get/post followed by raise_for_status(): the exception that
\* propagates, "" if none
RequestRaises(res) ==
    IF res.exc /= "" THEN res.exc
    ELSE IF res.status >= 400 THEN "HTTPError"
    ELSE ""

\* str(err)
ErrorStr(res) == IF res.exc /= "" THEN res.exc ELSE "500 Server Error"

\* dict.get(key, default)
Get(d, key, default) == IF key \in DOMAIN d THEN d[key] ELSE default

\* -------------------------------------------------------------- app.py
\* the JWT request without line 31 (raise_for_status)
JWTRaisesIgnoringStatus(res) == res.exc

\* lines 29-32: the exception raised by the JWT request, "" if none
JWTRaises(res) == RequestRaises(res)

\* lines 37-40
EndpointsRaises(res) == RequestRaises(res)

\* lines 62-66
GroupsRaises(res) == RequestRaises(res)

\* lines 46-58: only requests.exceptions.HTTPError is caught
safe_request(url, res, errs) ==
    LET exn == RequestRaises(res) IN
    IF exn = "" THEN
        [out |-> "value", body |-> res.body, errors |-> errs, exc |-> ""]
    ELSE IF exn = "HTTPError" THEN
        [out |-> "None", body |-> <<>>,
         errors |-> Append(errs, [URL |-> url, Error |-> ErrorStr(res)]),
         exc |-> ""]
    ELSE
        [out |-> "raised", body |-> <<>>, errors |-> errs, exc |-> exn]

\* line 69: a dict comprehension, a later group with the same Id wins
GroupIdToName(groups) ==
    [g \in {groups[i].Id : i \in DOMAIN groups} |->
        LET last == CHOOSE i \in DOMAIN groups :
                        /\ groups[i].Id = g
                        /\ \A j \in DOMAIN groups : groups[j].Id = g => j <= i
        IN groups[last].Name]

\* line 82
GroupName(endpoint, id_to_name) == Get(id_to_name, endpoint.GroupId, "Unknown Group")

\* line 133: service["Spec"]["Mode"]["Replicated"]["Replicas"] raises KeyError
\* when the mode has no "Replicated" key
ReplicasRaises(service) == "Replicated" \notin DOMAIN service.Spec.Mode

\* lines 91-135, for a service whose Replicas lookup succeeds
ServiceRecord(service, endpoint, group_name) ==
    LET cs == service.Spec.TaskTemplate.ContainerSpec
        envs == Get(cs, "Env", <<>>)
        configs == Get(cs, "Configs", <<>>)
        mounts == Get(cs, "Mounts", <<>>)
        labels == Get(cs, "Labels", [maintainer |-> "ops"])
    IN [Group |-> group_name,
        Endpoint |-> endpoint.Name,
        Type |-> "Service",
        Name |-> service.Spec.Name,
        Image |-> SplitFirst(cs.Image, "@"),
        Environment_Variables |-> [i \in DOMAIN envs |-> SplitFirst(envs[i], "=")],
        Configurations |-> [i \in DOMAIN configs |->
            [ConfigName |-> configs[i].ConfigName, FilePath |-> configs[i].File.Name]],
        Mounts |-> [i \in DOMAIN mounts |->
            [Source |-> mounts[i].Source, Target |-> mounts[i].Target,
             Type |-> mounts[i].Type]],
        Replicas |-> service.Spec.Mode.Replicated.Replicas,
        Stack |-> Get(labels, "com_docker_stack_namespace", None)]

RECURSIVE CollectServices(_, _, _, _, _)
\* lines 90-135: the loop over services_response from position i on; it stops
\* at the first service whose record cannot be built
CollectServices(body, i, acc, endpoint, group_name) ==
    IF i > Len(body) THEN [data |-> acc, exc |-> ""]
    ELSE IF ReplicasRaises(body[i]) THEN [data |-> acc, exc |-> "KeyError"]
    ELSE CollectServices(body, i + 1,
             Append(acc, ServiceRecord(body[i], endpoint, group_name)),
             endpoint, group_name)

\* lines 140-149
SecretsRows(body, endpoint) ==
    << [Endpoint |-> endpoint.Name,
        Type |-> "Secret",
        Names |-> [i \in DOMAIN body |-> body[i].Spec.Name]] >>

\* the membership test of line 159 left out
HostnameNeverChecked(hostname, dict) == TRUE

\* line 159: hostname not in nodes_dict
HostnameAbsent(hostname, dict) ==
    \A i \in DOMAIN dict : dict[i].Hostname /= hostname

\* lines 160-169
NodeRecord(node, endpoint) ==
    [Endpoint |-> endpoint.Name,
     Type |-> "Node",
     Hostname |-> node.Description.Hostname,
     Role |-> node.Spec.Role,
     Availability |-> node.Spec.Availability,
     NanoCPUs |-> node.Description.Resources.NanoCPUs,
     MemoryBytes |-> node.Description.Resources.MemoryBytes,
     State |-> node.Status.State]

RECURSIVE CollectNodes(_, _, _, _)
\* lines 156-169
CollectNodes(body, i, dict, endpoint) ==
    IF i > Len(body) THEN dict
    ELSE CollectNodes(body, i + 1,
             IF HostnameAbsent(body[i].Description.Hostname, dict)
             THEN Append(dict, NodeRecord(body[i], endpoint))
             ELSE dict,
             endpoint)

\* lines 179-180 and 188-193
StatsRecord(container, endpoint, stats_response) ==
    [Endpoint |-> endpoint.Name,
     Stack |-> Get(container.Labels, "com_docker_stack_namespace", "Unknown"),
     Service |-> Get(container.Labels, "com_docker_swarm_service_name", "Unknown"),
     stats |-> stats_response]

\* lines 196-210: the sheets in the order they are written
Sheets ==
    << <<"Services", services_data>>,
       <<"Secrets", secrets_data>>,
       <<"Nodes", nodes_dict>>,
       <<"Container Statistics", container_stats_data>>,
       <<"Request Errors", request_errors>> >>

\* line 78: where the for loop goes after endpoint number i
PcAfter(i) == IF i < Len(endpoints) THEN "services" ELSE "export"
IdxAfter(i) == IF i < Len(endpoints) THEN i + 1 ELSE i

accumulators == <<services_data, secrets_data, nodes_dict, container_stats_data>>
loopvars == <<idx, containers_response, cidx>>

\* lines 29-35
Authenticate ==
    /\ impl = "script" /\ pc = "auth"
    /\ \E res \in AuthResponses(ScriptTransportErrors) :
         LET exn == JWTRaises(res) IN
         /\ log' = Append(log, Entry("POST", LOGIN_URL, "direct", res,
                                     IF exn = "" THEN "value" ELSE "raised", exn))
         /\ exception' = exn
         /\ pc' = IF exn = "" THEN "endpoints" ELSE "crashed"
         /\ jwt' = IF exn = "" THEN "token" ELSE jwt
    /\ UNCHANGED <<impl, endpoints, group_id_to_name, loopvars, accumulators,
                   request_errors, exported, ret, budget>>

\* lines 37-40
ListEndpoints ==
    /\ impl = "script" /\ pc = "endpoints"
    /\ \E res \in Responses(EndpointLists, MaxEndpoints, ScriptTransportErrors) :
         LET exn == EndpointsRaises(res) IN
         /\ log' = Append(log, Entry("GET", ENDPOINTS_URL, "direct", res,
                                     IF exn = "" THEN "value" ELSE "raised", exn))
         /\ exception' = exn
         /\ pc' = IF exn = "" THEN "groups" ELSE "crashed"
         /\ endpoints' = IF exn = "" THEN res.body ELSE endpoints
    /\ UNCHANGED <<impl, jwt, group_id_to_name, loopvars, accumulators,
                   request_errors, exported, ret, budget>>

\* lines 62-75, and the first test of the for loop of line 78
ListGroups ==
    /\ impl = "script" /\ pc = "groups"
    /\ \E res \in Responses(GroupLists, MaxEndpoints, ScriptTransportErrors) :
         LET exn == GroupsRaises(res) IN
         /\ log' = Append(log, Entry("GET", groups_url, "direct", res,
                                     IF exn = "" THEN "value" ELSE "raised", exn))
         /\ exception' = exn
         /\ pc' = IF exn /= "" THEN "crashed" ELSE PcAfter(0)
         /\ idx' = IF exn /= "" THEN idx ELSE IdxAfter(0)
         /\ group_id_to_name' =
                IF exn = "" THEN GroupIdToName(res.body) ELSE group_id_to_name
    /\ UNCHANGED <<impl, jwt, endpoints, containers_response, cidx, accumulators,
                   request_errors, exported, ret, budget>>

\* lines 86-135
FetchServices ==
    /\ impl = "script" /\ pc = "services"
    /\ \E res \in Responses(ServiceBodies, budget, ScriptTransportErrors) :
         LET endpoint == endpoints[idx]
             url == services_url(endpoint.Id)
             r == safe_request(url, res, request_errors)
             c == CollectServices(r.body, 1, services_data, endpoint,
                                  GroupName(endpoint, group_id_to_name))
         IN
         /\ log' = Append(log, Entry("GET", url, "safe_request", res, r.out, r.exc))
         /\ budget' = budget - Cost(res)
         /\ request_errors' = r.errors
         /\ services_data' = IF r.out = "value" THEN c.data ELSE services_data
         /\ exception' = IF r.out = "raised" THEN r.exc
                         ELSE IF r.out = "value" THEN c.exc ELSE ""
         /\ pc' = IF exception' = "" THEN "secrets" ELSE "crashed"
    /\ UNCHANGED <<impl, jwt, endpoints, group_id_to_name, loopvars, secrets_data,
                   nodes_dict, container_stats_data, exported, ret>>

\* lines 137-149
FetchSecrets ==
    /\ impl = "script" /\ pc = "secrets"
    /\ \E res \in Responses(SecretBodies, budget, ScriptTransportErrors) :
         LET endpoint == endpoints[idx]
             url == secrets_url(endpoint.Id)
             r == safe_request(url, res, request_errors)
         IN
         /\ log' = Append(log, Entry("GET", url, "safe_request", res, r.out, r.exc))
         /\ budget' = budget - Cost(res)
         /\ request_errors' = r.errors
         /\ secrets_data' = IF r.out = "value"
                            THEN secrets_data \o SecretsRows(r.body, endpoint)
                            ELSE secrets_data
         /\ exception' = r.exc
         /\ pc' = IF r.out = "raised" THEN "crashed" ELSE "nodes"
    /\ UNCHANGED <<impl, jwt, endpoints, group_id_to_name, loopvars, services_data,
                   nodes_dict, container_stats_data, exported, ret>>

\* lines 152-169
FetchNodes ==
    /\ impl = "script" /\ pc = "nodes"
    /\ \E res \in Responses(NodeBodies(endpoints[idx].Id), budget, ScriptTransportErrors) :
         LET endpoint == endpoints[idx]
             url == nodes_url(endpoint.Id)
             r == safe_request(url, res, request_errors)
         IN
         /\ log' = Append(log, Entry("GET", url, "safe_request", res, r.out, r.exc))
         /\ budget' = budget - Cost(res)
         /\ request_errors' = r.errors
         /\ nodes_dict' = IF r.out = "value"
                          THEN CollectNodes(r.body, 1, nodes_dict, endpoint)
                          ELSE nodes_dict
         /\ exception' = r.exc
         /\ pc' = IF r.out = "raised" THEN "crashed" ELSE "containers"
    /\ UNCHANGED <<impl, jwt, endpoints, group_id_to_name, loopvars, services_data,
                   secrets_data, container_stats_data, exported, ret>>

\* lines 172-177: the containers listing and the first test of the inner loop
FetchContainers ==
    /\ impl = "script" /\ pc = "containers"
    /\ \E res \in Responses(ContainerBodies, budget, ScriptTransportErrors) :
         LET endpoint == endpoints[idx]
             url == containers_url(endpoint.Id)
             r == safe_request(url, res, request_errors)
         IN
         /\ log' = Append(log, Entry("GET", url, "safe_request", res, r.out, r.exc))
         /\ budget' = budget - Cost(res)
         /\ request_errors' = r.errors
         /\ exception' = r.exc
         /\ containers_response' = r.body
         /\ cidx' = 1
         /\ pc' = IF r.out = "raised" THEN "crashed"
                  ELSE IF r.out = "value" /\ Len(r.body) > 0 THEN "stats"
                  ELSE PcAfter(idx)
         /\ idx' = IF r.out = "raised" \/ (r.out = "value" /\ Len(r.body) > 0)
                   THEN idx ELSE IdxAfter(idx)
    /\ UNCHANGED <<impl, jwt, endpoints, group_id_to_name, accumulators,
                   exported, ret>>

\* lines 177-193: one iteration of the loop over containers_response
FetchStats ==
    /\ impl = "script" /\ pc = "stats"
    /\ \E res \in StatsResponses(budget, ScriptTransportErrors) :
         LET endpoint == endpoints[idx]
             container == containers_response[cidx]
             url == stats_url(endpoint.Id, container.Id)
             r == safe_request(url, res, request_errors)
             last == cidx = Len(containers_response)
         IN
         /\ log' = Append(log, Entry("GET", url, "safe_request", res, r.out, r.exc))
         /\ budget' = budget - StatsCost(res)
         /\ request_errors' = r.errors
         /\ container_stats_data' =
                IF r.out = "value"
                THEN Append(container_stats_data, StatsRecord(container, endpoint, r.body))
                ELSE container_stats_data
         /\ exception' = r.exc
         /\ cidx' = IF r.out = "raised" \/ last THEN cidx ELSE cidx + 1
         /\ pc' = IF r.out = "raised" THEN "crashed"
                  ELSE IF last THEN PcAfter(idx) ELSE "stats"
         /\ idx' = IF r.out /= "raised" /\ last THEN IdxAfter(idx) ELSE idx
    /\ UNCHANGED <<impl, jwt, endpoints, group_id_to_name, containers_response,
                   services_data, secrets_data, nodes_dict, exported, ret>>

\* lines 196-212
Export ==
    /\ impl = "script" /\ pc = "export"
    /\ exported' = Sheets
    /\ pc' = "done"
    /\ UNCHANGED <<impl, exception, jwt, endpoints, group_id_to_name, loopvars,
                   accumulators, request_errors, ret, budget, log>>

ScriptNext ==
    \/ Authenticate
    \/ ListEndpoints
    \/ ListGroups
    \/ FetchServices
    \/ FetchSecrets
    \/ FetchNodes
    \/ FetchContainers
    \/ FetchStats
    \/ Export

\* ----------------------------------------------------- portainer_api.py
\* lines 14-20: the exception authenticate() raises, "" if none
authenticate_raises(res) == RequestRaises(res)

\* lines 26-39: every requests.exceptions.RequestException is caught
RequestException == {"HTTPError", "ConnectionError", "Timeout"}

API_safe_request(url, res, errs) ==
    LET exn == RequestRaises(res) IN
    IF exn = "" THEN
        [out |-> "value", body |-> res.body, errors |-> errs, exc |-> ""]
    ELSE IF exn \in RequestException THEN
        [out |-> "None", body |-> <<>>,
         errors |-> Append(errs, [URL |-> url, Error |-> ErrorStr(res)]),
         exc |-> ""]
    ELSE
        [out |-> "raised", body |-> <<>>, errors |-> errs, exc |-> exn]

\* lines 77-80, reached through get_services, get_secrets and get_nodes
\* (lines 55-65)
DataTypes == {"services", "secrets", "nodes"}
endpoint_data_url(endpoint_id, data_type) ==
    CASE data_type = "services" -> services_url(endpoint_id)
      [] data_type = "secrets" -> secrets_url(endpoint_id)
      [] data_type = "nodes" -> nodes_url(endpoint_id)

RECURSIVE FindGroup(_, _, _)
\* lines 85-88: the loop over groups from position i on
FindGroup(groups, i, group_id) ==
    IF i > Len(groups) THEN "Unknown Group"
    ELSE IF groups[i].Id = group_id THEN groups[i].Name
    ELSE FindGroup(groups, i + 1, group_id)

\* lines 82-88: iterating over None raises TypeError
group_name_result(r, group_id) ==
    IF r.out = "value"
    THEN [kind |-> "value", val |-> FindGroup(r.body, 1, group_id)]
    ELSE [kind |-> "raised", val |-> "TypeError"]

\* what a method that returns self.safe_request(url) hands to its caller
Returned(r) ==
    IF r.out = "value" THEN [kind |-> "value", val |-> r.body]
    ELSE IF r.out = "None" THEN [kind |-> "None", val |-> None]
    ELSE [kind |-> "raised", val |-> r.exc]

\* the JSON payloads the class hands through untouched
DataBodies == {<<"json">>}
\* the arguments the callers pass
EndpointIds == {1}
ContainerIds == {1}
GroupIds == {1, 2}

Calls == Cardinality({i \in DOMAIN log : log[i].method = "GET"})
CanCall == impl = "class" /\ pc = "ready" /\ Calls < MaxCalls

scriptvars == <<endpoints, group_id_to_name, idx, containers_response, cidx,
                services_data, secrets_data, nodes_dict, container_stats_data,
                exported, budget>>

\* lines 5-20: the constructor
API_init ==
    /\ impl = "class" /\ pc = "new"
    /\ \E res \in AuthResponses(ClassTransportErrors) :
         LET exn == authenticate_raises(res) IN
         /\ log' = Append(log, Entry("POST", LOGIN_URL, "direct", res,
                                     IF exn = "" THEN "value" ELSE "raised", exn))
         /\ exception' = exn
         /\ pc' = IF exn = "" THEN "ready" ELSE "crashed"
         /\ jwt' = IF exn = "" THEN "token" ELSE jwt
         /\ request_errors' = IF exn = "" THEN <<>> ELSE request_errors
    /\ UNCHANGED <<impl, ret, scriptvars>>

\* the outcomes of one GET issued by the class
ClassResponses(bodies) == Responses(bodies, MaxEndpoints, ClassTransportErrors)

\* a method whose body is "return self.safe_request(url)", given the outcome
\* of its request
ReturnSafeRequest(url, res) ==
    LET r == API_safe_request(url, res, request_errors) IN
    /\ log' = Append(log, Entry("GET", url, "safe_request", res, r.out, r.exc))
    /\ request_errors' = r.errors
    /\ ret' = Returned(r)
    /\ exception' = r.exc

\* lines 45-48
get_endpoints ==
    /\ CanCall
    /\ \E res \in ClassResponses(EndpointLists) :
         ReturnSafeRequest(ENDPOINTS_URL, res)
    /\ UNCHANGED <<impl, pc, jwt, scriptvars>>

\* lines 50-53
get_endpoint_groups ==
    /\ CanCall
    /\ \E res \in ClassResponses(GroupLists) :
         ReturnSafeRequest(groups_url, res)
    /\ UNCHANGED <<impl, pc, jwt, scriptvars>>

\* lines 55-65 and 77-80
get_endpoint_data ==
    /\ CanCall
    /\ \E endpoint_id \in EndpointIds, data_type \in DataTypes :
       \E res \in ClassResponses(DataBodies) :
         ReturnSafeRequest(endpoint_data_url(endpoint_id, data_type), res)
    /\ UNCHANGED <<impl, pc, jwt, scriptvars>>

\* lines 67-70
get_containers ==
    /\ CanCall
    /\ \E endpoint_id \in EndpointIds :
       \E res \in ClassResponses(DataBodies) :
         ReturnSafeRequest(containers_url(endpoint_id), res)
    /\ UNCHANGED <<impl, pc, jwt, scriptvars>>

\* lines 72-75
get_container_stats ==
    /\ CanCall
    /\ \E endpoint_id \in EndpointIds, container_id \in ContainerIds :
       \E res \in ClassResponses(DataBodies) :
         ReturnSafeRequest(stats_url(endpoint_id, container_id), res)
    /\ UNCHANGED <<impl, pc, jwt, scriptvars>>

\* lines 82-88
get_group_name ==
    /\ CanCall
    /\ \E group_id \in GroupIds :
       \E res \in ClassResponses(GroupLists) :
         LET r == API_safe_request(groups_url, res, request_errors)
             g == group_name_result(r, group_id)
         IN
         /\ log' = Append(log, Entry("GET", groups_url, "safe_request", res, r.out,
                                     IF g.kind = "raised" THEN g.val ELSE ""))
         /\ request_errors' = r.errors
         /\ ret' = g
         /\ exception' = IF g.kind = "raised" THEN g.val ELSE ""
    /\ UNCHANGED <<impl, pc, jwt, scriptvars>>

\* lines 41-43
get_request_errors ==
    /\ impl = "class" /\ pc = "ready"
    /\ ret' = [kind |-> "value", val |-> request_errors]
    /\ exception' = ""
    /\ UNCHANGED <<impl, pc, jwt, request_errors, log, scriptvars>>

ClassNext ==
    \/ API_init
    \/ get_endpoints
    \/ get_endpoint_groups
    \/ get_endpoint_data
    \/ get_containers
    \/ get_container_stats
    \/ get_group_name
    \/ get_request_errors

Init ==
    /\ impl \in {"script", "class"}
    /\ pc = IF impl = "script" THEN "auth" ELSE "new"
    /\ exception = ""
    /\ jwt = ""
    /\ endpoints = <<>>
    /\ group_id_to_name = <<>>
    /\ idx = 0
    /\ containers_response = <<>>
    /\ cidx = 0
    /\ services_data = <<>>
    /\ secrets_data = <<>>
    /\ nodes_dict = <<>>
    /\ container_stats_data = <<>>
    /\ request_errors = <<>>
    /\ exported = <<>>
    /\ ret = [kind |-> "none", val |-> None]
    /\ budget = Budget
    /\ log = <<>>

Next == ScriptNext \/ ClassNext

Spec == Init /\ [][Next]_vars

\* ================================================================ claims
\* a transport failure or a non-2xx status
Failed(res) == res.exc /= "" \/ res.status \notin 200..299
Is500(res) == res.exc = "" /\ res.status = 500

ErrorsFor(url) == {a \in DOMAIN request_errors : request_errors[a].URL = url}
RequestsTo(url) == {i \in DOMAIN log : log[i].method = "GET" /\ log[i].url = url}
\* successful safe_request calls for one kind of resource
Fetched(path) ==
    {i \in DOMAIN log : log[i].url.path = path /\ log[i].out = "value"}
NameOf(eid) == (CHOOSE e \in Range(endpoints) : e.Id = eid).Name
RowsOf(table, eid) == {a \in DOMAIN table : table[a].Endpoint = NameOf(eid)}
PerEndpointRequests ==
    {i \in DOMAIN log : log[i].method = "GET" /\ log[i].url.path \in PerEndpointPaths}
StatsFetched(eid, cid) ==
    {i \in Fetched("docker/containers/stats?stream=false") :
        log[i].url = stats_url(eid, cid)}
Terminated == pc \in {"done", "crashed"}

\* C1: every failed GET issued through safe_request (either implementation)
\* comes back as None without raising, and the error log holds exactly one
\* {URL, Error} entry per failed request to that URL.
C1_SafeRequestContainsEveryFailure ==
    \A i \in DOMAIN log :
        (log[i].via = "safe_request" /\ Failed(log[i].res)) =>
            /\ log[i].out = "None"
            /\ Cardinality(ErrorsFor(log[i].url)) =
                 Cardinality({j \in RequestsTo(log[i].url) :
                                 log[j].via = "safe_request" /\ Failed(log[j].res)})

\* the resource requested at url has contributed no record
C2_NoRecordFor(url) ==
    IF url.path = "docker/services" THEN RowsOf(services_data, url.eid) = {}
    ELSE IF url.path = "docker/secrets" THEN RowsOf(secrets_data, url.eid) = {}
    ELSE IF url.path = "docker/nodes" THEN RowsOf(nodes_dict, url.eid) = {}
    ELSE IF url.path = "docker/containers/json"
        THEN RowsOf(container_stats_data, url.eid) = {}
    ELSE Cardinality(RowsOf(container_stats_data, url.eid)) =
            Cardinality({i \in Fetched(url.path) : log[i].url.eid = url.eid})

\* every per-endpoint fetch of every listed endpoint has been issued
C2_AllFetched ==
    \A e \in Range(endpoints) :
        /\ \A path \in PerEndpointPaths \ {"docker/containers/stats?stream=false"} :
               RequestsTo(URL(path, e.Id, 0)) /= {}
        /\ \A i \in Fetched("docker/containers/json") :
               log[i].url.eid = e.Id =>
                   \A k \in DOMAIN log[i].res.body :
                       RequestsTo(stats_url(e.Id, log[i].res.body[k].Id)) /= {}

\* C2: in a run of the script whose only failed request is one per-resource
\* fetch answered with HTTP 500: one error entry carries that URL, the URL was
\* requested once, the resource contributed no record, the run does not
\* crash, and when it ends it has exported after issuing every other fetch of
\* every endpoint.
C2_Http500IsContained ==
    \A i \in PerEndpointRequests :
        ( /\ impl = "script"
          /\ Is500(log[i].res)
          /\ {j \in DOMAIN log : Failed(log[j].res)} = {i} ) =>
            /\ Cardinality(ErrorsFor(log[i].url)) = 1
            /\ Cardinality(RequestsTo(log[i].url)) = 1
            /\ C2_NoRecordFor(log[i].url)
            /\ pc /= "crashed"
            /\ pc = "done" => (exported /= <<>> /\ C2_AllFetched)

\* the nodes response of history entry i contains hostname h
C3_Reports(i, h) ==
    \E k \in DOMAIN log[i].res.body : log[i].res.body[k].Description.Hostname = h

\* the first successful nodes response that contains hostname h
C3_FirstReport(h) ==
    CHOOSE i \in Fetched("docker/nodes") :
        /\ C3_Reports(i, h)
        /\ \A j \in Fetched("docker/nodes") : C3_Reports(j, h) => i <= j

\* C3: the node table never holds two records with one hostname; a hostname
\* has a record exactly when some successful nodes response contained it; and
\* that record was built from the first such response: it names that
\* response's endpoint and carries that response's fields.
C3_NodesFirstWriterWins ==
    impl = "script" =>
    /\ \A a, b \in DOMAIN nodes_dict :
           nodes_dict[a].Hostname = nodes_dict[b].Hostname => a = b
    /\ \A h \in Hostnames :
           (\E i \in Fetched("docker/nodes") : C3_Reports(i, h))
             <=> (\E a \in DOMAIN nodes_dict : nodes_dict[a].Hostname = h)
    /\ \A a \in DOMAIN nodes_dict :
           LET h == nodes_dict[a].Hostname
               first == log[C3_FirstReport(h)]
               node == first.res.body[CHOOSE k \in DOMAIN first.res.body :
                           /\ first.res.body[k].Description.Hostname = h
                           /\ \A m \in DOMAIN first.res.body :
                                 first.res.body[m].Description.Hostname = h => k <= m]
           IN /\ nodes_dict[a].Endpoint = NameOf(first.url.eid)
              /\ nodes_dict[a].Role = node.Spec.Role
              /\ nodes_dict[a].Availability = node.Spec.Availability
              /\ nodes_dict[a].State = node.Status.State
              /\ nodes_dict[a].NanoCPUs = node.Description.Resources.NanoCPUs
              /\ nodes_dict[a].MemoryBytes = node.Description.Resources.MemoryBytes

\* two endpoints have reported the same hostname and the table holds one record
C3_Witness ==
    impl = "script" /\ \E i, j \in Fetched("docker/nodes") :
        /\ i < j
        /\ log[i].url.eid /= log[j].url.eid
        /\ \E h \in Hostnames :
             /\ C3_Reports(i, h)
             /\ C3_Reports(j, h)
             /\ Cardinality({a \in DOMAIN nodes_dict : nodes_dict[a].Hostname = h}) = 1

\* C4: every service of a successful services response whose Spec.Mode has no
\* "Replicated" key yields a service record with Replicas = 0, every service
\* of the response yields a record, and the run does not stop on it.
C4_GlobalServiceHasZeroReplicas ==
    \A i \in Fetched("docker/services") :
        LET body == log[i].res.body
            eid == log[i].url.eid
        IN impl = "script" =>
            /\ \A k \in DOMAIN body :
                   "Replicated" \notin DOMAIN body[k].Spec.Mode =>
                       \E a \in RowsOf(services_data, eid) :
                           /\ services_data[a].Name = body[k].Spec.Name
                           /\ services_data[a].Replicas = 0
            /\ Cardinality(RowsOf(services_data, eid)) = Len(body)
            /\ exception /= "KeyError"

\* the secrets fetches that succeeded with at least one secret
C5_NonEmpty == {i \in Fetched("docker/secrets") : Len(log[i].res.body) > 0}

\* C5: the secrets table holds one row per endpoint whose secrets fetch
\* succeeded with at least one secret, with that response's names in order,
\* and no other row.
C5_SecretsRowsOnlyForNonEmpty ==
    impl = "script" =>
    /\ Len(secrets_data) = Cardinality(C5_NonEmpty)
    /\ \A i \in C5_NonEmpty :
           \E a \in RowsOf(secrets_data, log[i].url.eid) :
               secrets_data[a].Names =
                   [k \in DOMAIN log[i].res.body |-> log[i].res.body[k].Spec.Name]

\* C6: a failed listing of the endpoints collection raises to the caller (it
\* is not returned as an absent result), no per-endpoint request follows it,
\* and nothing is exported.
C6_ListingFailureAborts ==
    \A i \in DOMAIN log :
        (log[i].url = ENDPOINTS_URL /\ Failed(log[i].res)) =>
            /\ log[i].out = "raised"
            /\ \A j \in PerEndpointRequests : j < i
            /\ exported = <<>>

\* C7: a failed groups lookup is recorded in the error log under the groups
\* URL, raises nothing and does not end the run, and the service records
\* collected afterwards carry the group name "Unknown Group".
C7_GroupsFailureIsRecoverable ==
    \A i \in DOMAIN log :
        (log[i].url = groups_url /\ Failed(log[i].res)) =>
            /\ ErrorsFor(groups_url) /= {}
            /\ log[i].exc = ""
            /\ pc /= "crashed"
            /\ \A a \in DOMAIN services_data :
                   services_data[a].Group = "Unknown Group"

\* C8: every GET is preceded by a credential POST that succeeded; and once a
\* credential POST has failed, the run (or the construction of the object) has
\* ended with an exception, no GET was issued, there is no token, every
\* accumulator is empty and nothing was exported.
C8_AuthenticationFirst ==
    /\ \A i \in DOMAIN log :
           log[i].method = "GET" =>
               \E j \in 1..(i - 1) :
                   log[j].method = "POST" /\ ~Failed(log[j].res)
    /\ \A i \in DOMAIN log :
           (log[i].method = "POST" /\ Failed(log[i].res)) =>
               /\ pc = "crashed"
               /\ exception /= ""
               /\ jwt = ""
               /\ \A j \in DOMAIN log : log[j].method /= "GET"
               /\ services_data = <<>> /\ secrets_data = <<>>
               /\ nodes_dict = <<>> /\ container_stats_data = <<>>
               /\ request_errors = <<>>
               /\ exported = <<>>

\* the credential POST was answered with a non-success status
C8_Witness ==
    \E i \in DOMAIN log :
        log[i].method = "POST" /\ Is500(log[i].res) /\ pc = "crashed"

\* C9: once the script has listed zero endpoints it issues no per-endpoint
\* request and does not crash, and when it ends every exported sheet is empty.
C9_EmptyListingExportsEmptySheets ==
    (impl = "script" /\ \E i \in DOMAIN log :
        log[i].url = ENDPOINTS_URL /\ log[i].out = "value" /\ log[i].res.body = <<>>) =>
            /\ PerEndpointRequests = {}
            /\ pc /= "crashed"
            /\ pc = "done" =>
                   /\ Len(exported) = 5
                   /\ \A k \in DOMAIN exported : exported[k][2] = <<>>

\* C10: for every container of a successful containers response at most one
\* stats request is issued, and exactly one once the run has ended; the
\* endpoint has as many stats records as containers whose stats request
\* succeeded, each carrying the container's namespace and service labels or
\* "Unknown" where the label is absent.
C10_OneStatsFetchPerContainer ==
    \A i \in Fetched("docker/containers/json") :
        LET body == log[i].res.body
            eid == log[i].url.eid
        IN impl = "script" =>
            /\ \A k \in DOMAIN body :
                   /\ Cardinality(RequestsTo(stats_url(eid, body[k].Id))) <= 1
                   /\ Terminated =>
                          Cardinality(RequestsTo(stats_url(eid, body[k].Id))) = 1
                   /\ \A j \in StatsFetched(eid, body[k].Id) :
                          \E a \in RowsOf(container_stats_data, eid) :
                              container_stats_data[a] =
                                [Endpoint |-> NameOf(eid),
                                 Stack |->
                                    IF "com_docker_stack_namespace" \in DOMAIN body[k].Labels
                                    THEN body[k].Labels.com_docker_stack_namespace
                                    ELSE "Unknown",
                                 Service |->
                                    IF "com_docker_swarm_service_name" \in DOMAIN body[k].Labels
                                    THEN body[k].Labels.com_docker_swarm_service_name
                                    ELSE "Unknown",
                                 stats |-> log[j].res.body]
            /\ Cardinality(RowsOf(container_stats_data, eid)) =
                 Cardinality({k \in DOMAIN body : StatsFetched(eid, body[k].Id) /= {}})

====
